---------------------------- MODULE Spec2Model ----------------------------
(***************************************************************************)
(* Model of hybot's approval-gated coding tools                            *)
(* (src/src/hybot/tools/guarded_coding.py): the catalog of dangerous       *)
(* shell patterns, the confirmation gate and the three guarded             *)
(* operations run_shell, write_file and edit_file of GuardedCodingTools.   *)
(*                                                                         *)
(* Text (commands, paths) is a sequence of one-character strings, so that  *)
(* pattern search and the [:200] slice are computed character by           *)
(* character.  The user-facing labels of the source are Chinese; they are  *)
(* written here in English, one distinct label per source literal.         *)
(***************************************************************************)
EXTENDS Naturals, Sequences, FiniteSets, TLC

(***************************************************************************)
(* Bounds of the model.                                                    *)
(***************************************************************************)
\* Length of the filler of the long command (so that it exceeds the slice).
LongFill == 201

(***************************************************************************)
(* Characters and the regular-expression fragment used by the catalog.     *)
(***************************************************************************)
Lower == {"a", "b", "c", "d", "e", "f", "g", "h", "i", "j", "k", "l", "m",
          "n", "o", "p", "q", "r", "s", "t", "u", "v", "w", "x", "y", "z"}
Upper == {"A", "B", "C", "D", "E", "F", "G", "H", "I", "J", "K", "L", "M",
          "N", "O", "P", "Q", "R", "S", "T", "U", "V", "W", "X", "Y", "Z"}
Digit == {"0", "1", "2", "3", "4", "5", "6", "7", "8", "9"}
\* \w of Python's re on the characters used here.
WordChar == Lower \cup Upper \cup Digit \cup {"_"}
\* \s of Python's re on the characters used here.
SpaceChar == {" ", "\t", "\n", "\r"}

\* Regex nodes: one record shape for all of them.
Node(t, cs, s, rs) == [t |-> t, cs |-> cs, s |-> s, rs |-> rs]
\* a literal string
Str(s) == Node("str", {}, s, <<>>)
\* a character class
Cls(cs) == Node("cls", cs, <<>>, <<>>)
\* . (any character but a newline)
Dot == Node("dot", {}, <<>>, <<>>)
\* \b
WB == Node("wb", {}, <<>>, <<>>)
\* concatenation
Cat(rs) == Node("cat", {}, <<>>, rs)
\* alternation
Alt(rs) == Node("alt", {}, <<>>, rs)
\* r*
Star(r) == Node("star", {}, <<>>, <<r>>)
\* r+
Plus(r) == Node("plus", {}, <<>>, <<r>>)

\* Is position i of s (1..Len(s)+1, the gap before s[i]) a word boundary?
IsWordAt(s, i) == i >= 1 /\ i <= Len(s) /\ s[i] \in WordChar
WordBoundary(s, i) == IsWordAt(s, i - 1) # IsWordAt(s, i)

\* Does literal lit occur in s starting at position i?
LitAt(lit, s, i) ==
    /\ i + Len(lit) - 1 <= Len(s)
    /\ \A k \in 1..Len(lit) : s[i + k - 1] = lit[k]

RECURSIVE Ends(_, _, _)
RECURSIVE EndsCat(_, _, _, _)
RECURSIVE Closure(_, _, _, _)
\* The end positions of the matches of r that start in I.
EndsFrom(r, s, I) == UNION {Ends(r, s, i) : i \in I}
\* Concatenation: thread the positions through rs[k..].
EndsCat(rs, k, s, I) ==
    IF k > Len(rs) \/ I = {} THEN I
    ELSE EndsCat(rs, k + 1, s, EndsFrom(rs[k], s, I))
\* Repetition: everything reachable from the frontier by matches of r.
Closure(r, s, done, frontier) ==
    IF frontier = {} THEN done
    ELSE LET new == EndsFrom(r, s, frontier) \ done
         IN  Closure(r, s, done \cup new, new)
\* The positions where a match of r that starts at position i can end.
Ends(r, s, i) ==
    CASE r.t = "str"  -> IF LitAt(r.s, s, i) THEN {i + Len(r.s)} ELSE {}
      [] r.t = "cls"  -> IF i <= Len(s) /\ s[i] \in r.cs THEN {i + 1} ELSE {}
      [] r.t = "dot"  -> IF i <= Len(s) /\ s[i] # "\n" THEN {i + 1} ELSE {}
      [] r.t = "wb"   -> IF WordBoundary(s, i) THEN {i} ELSE {}
      [] r.t = "cat"  -> EndsCat(r.rs, 1, s, {i})
      [] r.t = "alt"  -> UNION {Ends(r.rs[k], s, i) : k \in 1..Len(r.rs)}
      [] r.t = "star" -> Closure(r.rs[1], s, {i}, {i})
      [] r.t = "plus" -> LET first == Ends(r.rs[1], s, i)
                         IN  Closure(r.rs[1], s, first, first)

\* Variant: the whole string must match (re.fullmatch).
search_FullMatch(r, s) == (Len(s) + 1) \in Ends(r, s, 1)
\* re.Pattern.search: is there a match starting anywhere in s?
search(r, s) == \E i \in 1..(Len(s) + 1) : Ends(r, s, i) # {}

(***************************************************************************)
(* The pattern catalog, in source order (guarded_coding.py lines 15-33).   *)
(***************************************************************************)
Letters == Lower \cup Upper
Spaces1 == Plus(Cls(SpaceChar))
Word(s) == Cat(<<WB, Str(s), WB>>)

PatternSource ==
    << \* \brm\s+(-[a-zA-Z]*[rf]|--force|--recursive)\b
       Cat(<<WB, Str(<<"r", "m">>), Spaces1,
             Alt(<<Cat(<<Str(<<"-">>), Star(Cls(Letters)), Cls({"r", "f"})>>),
                   Str(<<"-", "-", "f", "o", "r", "c", "e">>),
                   Str(<<"-", "-", "r", "e", "c", "u", "r", "s", "i", "v", "e">>)>>),
             WB>>),
       \* \brm\b.*\s+/
       Cat(<<WB, Str(<<"r", "m">>), WB, Star(Dot), Spaces1, Str(<<"/">>)>>),
       \* \bsudo\b
       Word(<<"s", "u", "d", "o">>),
       \* \bchmod\b
       Word(<<"c", "h", "m", "o", "d">>),
       \* \bchown\b
       Word(<<"c", "h", "o", "w", "n">>),
       \* \bdd\b
       Word(<<"d", "d">>),
       \* \bmkfs\b
       Word(<<"m", "k", "f", "s">>),
       \* \bfdisk\b
       Word(<<"f", "d", "i", "s", "k">>),
       \* \bformat\b
       Word(<<"f", "o", "r", "m", "a", "t">>),
       \* \b(shutdown|reboot|poweroff|halt)\b
       Cat(<<WB,
             Alt(<<Str(<<"s", "h", "u", "t", "d", "o", "w", "n">>),
                   Str(<<"r", "e", "b", "o", "o", "t">>),
                   Str(<<"p", "o", "w", "e", "r", "o", "f", "f">>),
                   Str(<<"h", "a", "l", "t">>)>>),
             WB>>),
       \* \bgit\s+push\s+.*--force
       Cat(<<WB, Str(<<"g", "i", "t">>), Spaces1, Str(<<"p", "u", "s", "h">>),
             Spaces1, Star(Dot), Str(<<"-", "-", "f", "o", "r", "c", "e">>)>>),
       \* \bgit\s+reset\s+--hard
       Cat(<<WB, Str(<<"g", "i", "t">>), Spaces1, Str(<<"r", "e", "s", "e", "t">>),
             Spaces1, Str(<<"-", "-", "h", "a", "r", "d">>)>>),
       \* \bgit\s+clean\s+-[a-zA-Z]*f
       Cat(<<WB, Str(<<"g", "i", "t">>), Spaces1, Str(<<"c", "l", "e", "a", "n">>),
             Spaces1, Str(<<"-">>), Star(Cls(Letters)), Str(<<"f">>)>>),
       \* >\s*/dev/
       Cat(<<Str(<<">">>), Star(Cls(SpaceChar)), Str(<<"/", "d", "e", "v", "/">>)>>),
       \* \bkill\s+-9
       Cat(<<WB, Str(<<"k", "i", "l", "l">>), Spaces1, Str(<<"-", "9">>)>>),
       \* \bkillall\b
       Word(<<"k", "i", "l", "l", "a", "l", "l">>),
       \* \bpkill\b
       Word(<<"p", "k", "i", "l", "l">>) >>

PatternIds == 1..Len(PatternSource)

(***************************************************************************)
(* The inputs the calls are drawn from.                                    *)
(***************************************************************************)
Fill(c, n) == [k \in 1..n |-> c]

CmdRmRf == <<"r", "m", " ", "-", "r", "f", " ", "/", "t", "m", "p", "/", "b", "u", "i", "l", "d">>
CmdLs == <<"l", "s", " ", "-", "l", "a">>
CmdSudo == <<"s", "u", "d", "o", " ", "s", "h", "u", "t", "d", "o", "w", "n", " ", "n", "o", "w">>
CmdForcePush == <<"g", "i", "t", " ", "p", "u", "s", "h", " ", "o", "r", "i", "g", "i", "n", " ",
                  "m", "a", "i", "n", " ", "-", "-", "f", "o", "r", "c", "e">>
CmdEmpty == <<>>
\* "echo aaa...a", longer than the slice of the prompt
CmdLong == <<"e", "c", "h", "o", " ">> \o Fill("a", LongFill)
Commands == {CmdRmRf, CmdLs, CmdSudo, CmdForcePush, CmdEmpty, CmdLong}

\* The result of each pattern's search on each command, computed once.
SearchTable == [c \in Commands |-> [k \in PatternIds |-> search(PatternSource[k], c)]]

(***************************************************************************)
(* State.                                                                  *)
(***************************************************************************)
VARIABLES
    approval_mode,       \* GuardedCodingTools.approval_mode (line 61)
    DANGEROUS_PATTERNS,  \* the module-level catalog (line 15): pattern ids, in order
    pc,                  \* per caller: where its guarded call stands
    req,                 \* per caller: the arguments of its current call
    log,                 \* per caller: what its current call did, in order
    outcome,             \* per caller: how its current call ended
    config,              \* the loaded configuration: what the YAML gave, config.approval.mode
    agent_loop,          \* the interactive loop of build_and_run (agent.py lines 318-354)
    subagent             \* the coding tool call of a sub-agent (subagent.py): pc, req, log

vars == <<approval_mode, DANGEROUS_PATTERNS, pc, req, log, outcome, config, agent_loop,
          subagent>>

\* The callers that may have a guarded call in flight.
Procs == {"t1", "t2"}

\* approval.mode is an unvalidated string of the configuration (config.py line 94);
\* "Always" stands for a value outside the three documented ones.
Modes == {"always", "dangerous", "never", "Always"}

\* What the merged YAML gives for approval.mode: nothing, or a string.
ConfigGiven == {"absent"} \cup Modes

Timeouts == {"None", "30"}
PathNotes == <<"n", "o", "t", "e", "s", ".", "m", "d">>
PathPasswd == <<"/", "e", "t", "c", "/", "p", "a", "s", "s", "w", "d">>
Paths == {PathNotes, PathPasswd}
\* file payloads; the second one reads like a dangerous command
Contents == {"hello", "sudo rm -rf /"}
OldTexts == {"foo"}
NewTexts == {"bar", "sudo rm -rf /"}

\* What the underlying CodingTools operation may answer.
UnderlyingResults == {"ok", "Error: command failed"}
UnderlyingExceptions == {"OSError"}
\* Variant: the wait for input also ends by itself.
CancelSignals_WithTimeout == {"KeyboardInterrupt", "EOFError", "TimeoutError"}
\* What the terminal may deliver instead of an answer.
CancelSignals == {"KeyboardInterrupt", "EOFError"}
\* Lines the operator may type at the prompt.
Inputs == {<<" ", "Y">>, <<"n">>, <<>>, <<"y", "e", "s">>, <<" ">>}

ConfirmSites == {"L66", "L69", "L76", "L83"}
SuperSites == {"L71", "L78", "L85"}
Finished == {"returned", "raised"}

NoReq == [op |-> "none", command |-> <<>>, timeout |-> "None", file_path |-> <<>>,
          contents |-> "", old_text |-> "", new_text |-> ""]
ShellReq(command, timeout) ==
    [NoReq EXCEPT !.op = "run_shell", !.command = command, !.timeout = timeout]
WriteReq(file_path, contents) ==
    [NoReq EXCEPT !.op = "write_file", !.file_path = file_path, !.contents = contents]
EditReq(file_path, old_text, new_text) ==
    [NoReq EXCEPT !.op = "edit_file", !.file_path = file_path,
                  !.old_text = old_text, !.new_text = new_text]

NoOutcome == [how |-> "none", val |-> ""]
NoSubagentCall == [pc |-> "idle", req |-> NoReq, log |-> <<>>]
Event(ev, a, b) == [ev |-> ev, a |-> a, b |-> b]

(***************************************************************************)
(* guarded_coding.py                                                       *)
(***************************************************************************)
\* Variant: only the first signature of the list is tried.
any_search_FirstOnly(patterns, command) ==
    patterns # <<>> /\ SearchTable[command][patterns[1]]
\* any(p.search(command) for p in patterns)
any_search(patterns, command) ==
    LET found == SearchTable[command]
    IN  \E k \in 1..Len(patterns) : found[patterns[k]]

\* Variant: the classifier keeps a flag once a dangerous command is being asked about.
_is_dangerous_Sticky(command) ==
    \/ any_search(DANGEROUS_PATTERNS, command)
    \/ \E q \in Procs : pc[q] = "L69"
\* _is_dangerous: any(p.search(command) for p in DANGEROUS_PATTERNS)
_is_dangerous(command) == any_search(DANGEROUS_PATTERNS, command)

\* the 200 of detail[:200]
DetailLimit == 200
\* Python's s[:n]
Slice(s, n) == IF Len(s) <= n THEN s ELSE SubSeq(s, 1, n)

\* Variant: the whole detail is printed.
_confirm_action_Untruncated(action_desc, detail) == Event("prompt", action_desc, detail)
\* _confirm_action up to Confirm.ask: the label line and, for a non-empty detail,
\* the detail line (b = <<>>: no detail line is printed).
_confirm_action(action_desc, detail) ==
    Event("prompt", action_desc, IF detail # <<>> THEN Slice(detail, DetailLimit) ELSE <<>>)

\* str.strip() and str.lower() on the characters of Inputs
RECURSIVE LStrip(_)
LStrip(s) == IF s # <<>> /\ Head(s) \in SpaceChar THEN LStrip(Tail(s)) ELSE s
RECURSIVE RStrip(_)
RStrip(s) == IF s # <<>> /\ s[Len(s)] \in SpaceChar THEN RStrip(SubSeq(s, 1, Len(s) - 1)) ELSE s
Strip(s) == RStrip(LStrip(s))
LowerChar(c) == CASE c = "Y" -> "y" [] c = "N" -> "n" [] OTHER -> c
ToLower(s) == [k \in 1..Len(s) |-> LowerChar(s[k])]

\* Variant: no line is ever accepted; the prompt is shown again each time.
Confirm_ask_AlwaysReasks(input) == "invalid"
\* Variant: the prompt is asked with default=True.
Confirm_ask_DefaultYes(input) ==
    IF input = <<>> THEN "true"
    ELSE LET value == ToLower(Strip(input))
         IN  IF value = <<"y">> THEN "true"
             ELSE IF value = <<"n">> THEN "false"
             ELSE "invalid"
\* Confirm.ask(..., default=False) on one line of input: "true", "false", or
\* "invalid" (the prompt is shown again).
Confirm_ask(input) ==
    IF input = <<>> THEN "false"
    ELSE LET value == ToLower(Strip(input))
         IN  IF value = <<"y">> THEN "true"
             ELSE IF value = <<"n">> THEN "false"
             ELSE "invalid"

\* Variant: the `dangerous` branch forgets the classifier.
run_shell_confirm_NoClassifier(mode, command) ==
    IF mode = "always" THEN "L66"
    ELSE IF mode = "dangerous" THEN "L69"
    ELSE "none"
\* Variant: the classifier is consulted whatever the mode.
run_shell_confirm_AnyMode(mode, command) ==
    IF mode = "always" THEN "L66"
    ELSE IF _is_dangerous(command) THEN "L69"
    ELSE "none"
\* Variant: a command approved once is not asked about again.
run_shell_confirm_Remembers(mode, command) ==
    IF \E q \in Procs : /\ req[q].op = "run_shell" /\ req[q].command = command
                         /\ \E k \in 1..Len(log[q]) : log[q][k].ev = "gate" /\ log[q][k].a = "true"
    THEN "none"
    ELSE IF mode = "always" THEN "L66"
    ELSE IF mode = "dangerous" /\ _is_dangerous(command) THEN "L69"
    ELSE "none"
\* run_shell lines 65-70: the confirmation the call asks for, if any
run_shell_confirm(mode, command) ==
    IF mode = "always" THEN "L66"
    ELSE IF mode = "dangerous" /\ _is_dangerous(command) THEN "L69"
    ELSE "none"
\* Variant: write_file compares the mode without regard to case.
write_file_confirm_AnyCase(mode) == IF mode \in {"always", "Always"} THEN "L76" ELSE "none"
\* Variant: write_file never asks.
write_file_confirm_Never(mode) == "none"
\* write_file lines 75-76
write_file_confirm(mode) == IF mode = "always" THEN "L76" ELSE "none"
\* Variant: edit_file asks in every mode but `never`.
edit_file_confirm_NotNever(mode) == IF mode # "never" THEN "L83" ELSE "none"
\* edit_file lines 82-83
edit_file_confirm(mode) == IF mode = "always" THEN "L83" ELSE "none"

\* Variant: edit_file asks with the label of write_file.
ConfirmLabel_Shared(site) ==
    CASE site = "L66" -> "Execute Shell command"
      [] site = "L69" -> "Execute dangerous Shell command"
      [] site = "L76" -> "Write file"
      [] site = "L83" -> "Write file"
\* the action_desc literal of each confirmation
ConfirmLabel(site) ==
    CASE site = "L66" -> "Execute Shell command"
      [] site = "L69" -> "Execute dangerous Shell command"
      [] site = "L76" -> "Write file"
      [] site = "L83" -> "Edit file"
\* Variant: write_file shows what it is about to write after the path.
ConfirmDetail_WithContents(site, r) ==
    IF site \in {"L66", "L69"} THEN r.command
    ELSE IF site = "L76" THEN r.file_path \o <<":", r.contents>>
    ELSE r.file_path
\* the detail argument of each confirmation
ConfirmDetail(site, r) == IF site \in {"L66", "L69"} THEN r.command ELSE r.file_path

\* Variant: the `dangerous` branch of run_shell falls through on a refusal.
Rejects_FallThrough(site, ok) == site # "L69" /\ ~ok
\* `if not _confirm_action(...)` at each confirmation
Rejects(site, ok) == ~ok
\* Variant: the `dangerous` branch of run_shell returns another text.
RejectionText_Other(site) ==
    IF site = "L69" THEN "Error: Dangerous command rejected."
    ELSE "Error: Operation rejected by user."
\* the string returned at lines 67, 70, 77, 84
RejectionText(site) ==
    CASE site = "L66" -> "Error: Operation rejected by user."
      [] site = "L69" -> "Error: Operation rejected by user."
      [] site = "L76" -> "Error: Operation rejected by user."
      [] site = "L83" -> "Error: Operation rejected by user."

\* Variant: after the confirmation of mode always, a dangerous command is asked
\* about once more (`if` in place of `elif`, without the mode test).
AfterApproval_AsksAgain(site, command) ==
    IF site = "L66" /\ _is_dangerous(command) THEN "L69" ELSE "super"
\* Where a call goes after its confirmation was approved: the two confirmations
\* of run_shell are the arms of one if/elif (lines 65-70), so line 71 follows
\* either; write_file and edit_file have one confirmation each.
AfterApproval(site, command) == "super"

\* the line of the super() call of each operation
SuperSite(op) ==
    CASE op = "run_shell" -> "L71" [] op = "write_file" -> "L78" [] op = "edit_file" -> "L85"
\* Variant: run_shell forgets to pass its timeout on.
SuperArgs_NoTimeout(r) ==
    CASE r.op = "run_shell" -> <<r.command, "None">>
      [] r.op = "write_file" -> <<r.file_path, r.contents>>
      [] r.op = "edit_file" -> <<r.file_path, r.old_text, r.new_text>>
\* the arguments given to the super() call
SuperArgs(r) ==
    CASE r.op = "run_shell" -> <<r.command, r.timeout>>
      [] r.op = "write_file" -> <<r.file_path, r.contents>>
      [] r.op = "edit_file" -> <<r.file_path, r.old_text, r.new_text>>
SuperCall(r) == Event("call", r.op, SuperArgs(r))
\* `return super().<op>(...)`: what the guard returns for the underlying result
SuperReturn(site, result) == result

\* Variant: end of input is swallowed and the operation goes on.
OnCancel_SwallowEOF(site, sig) == IF sig = "EOFError" THEN "proceed" ELSE "raise"
\* No try/except encloses Confirm.ask (line 47) or the _confirm_action calls
\* (lines 66, 69, 76, 83): an exception raised while waiting for input leaves
\* the guarded operation as that exception. ("raise" | "reject" | "proceed")
OnCancel(site, sig) == "raise"
\* Variant: the guard tries the underlying operation a second time.
OnUnderlyingRaise_Retry(site, exc) == "retry"
\* No try/except encloses the super() calls (lines 71, 78, 85).
\* ("raise" | "reject" | "retry")
OnUnderlyingRaise(site, exc) == "raise"

\* ApprovalConfig (config.py lines 93-94): the field default when the key is absent
ApprovalConfig(given) == IF given = "absent" THEN "dangerous" ELSE given
\* load_merged_config ends with AppConfig(**merged)
load_merged_config(given) == [given |-> given, mode |-> ApprovalConfig(given)]
\* GuardedCodingTools.__init__(approval_mode="dangerous"): the value of self.approval_mode
GuardedCodingTools_init(arg) == IF arg = "omitted" THEN "dangerous" ELSE arg
\* Variant: the builder leaves the argument out.
_build_agent_stack_OmitsMode(cfg) == GuardedCodingTools_init("omitted")
\* _build_agent_stack: GuardedCodingTools(approval_mode=config.approval.mode, ...)
_build_agent_stack(cfg) == GuardedCodingTools_init(cfg.mode)

\* The tool call runs inside st.agent.aprint_response. The agent library reports
\* an exception of class Exception raised by a tool as a failed tool call and
\* goes on with the turn; KeyboardInterrupt is not an Exception and leaves
\* aprint_response.
LeavesResponse(exc) == exc = "KeyboardInterrupt"
\* Variant: no handler around aprint_response.
OnToolException_NoHandler(exc) == IF LeavesResponse(exc) THEN "terminated" ELSE "turn"
\* agent.py lines 339-347: `except KeyboardInterrupt` prints and the loop goes
\* round to the prompt; any other exception leaves the loop.
OnToolException(exc) ==
    IF ~LeavesResponse(exc) THEN "turn"
    ELSE IF exc = "KeyboardInterrupt" THEN "waiting"
    ELSE "terminated"

(***************************************************************************)
(* Actions.                                                                *)
(***************************************************************************)
Init ==
    /\ config \in {load_merged_config(given) : given \in ConfigGiven}
    /\ approval_mode = _build_agent_stack(config)
    /\ agent_loop = "waiting"
    /\ subagent = NoSubagentCall
    /\ DANGEROUS_PATTERNS = [k \in PatternIds |-> k]
    /\ pc = [p \in Procs |-> "idle"]
    /\ req = [p \in Procs |-> NoReq]
    /\ log = [p \in Procs |-> <<>>]
    /\ outcome = [p \in Procs |-> NoOutcome]

\* Variant: a guarded operation relaxes the mode as it goes.
GuardFrame_Relaxes == approval_mode' = "never" /\ UNCHANGED DANGEROUS_PATTERNS
\* What the guarded operations leave alone: no statement of run_shell,
\* write_file, edit_file or _confirm_action assigns self.approval_mode or
\* touches the DANGEROUS_PATTERNS list.
GuardFrame == UNCHANGED <<approval_mode, DANGEROUS_PATTERNS>>

\* Variant: the payload awaiting confirmation is kept in one place shared by the
\* calls, so an approval runs the payload of another call waiting at its prompt.
PayloadOf_Shared(p) ==
    IF \E q \in Procs \ {p} : pc[q] \in ConfirmSites /\ req[q].op = req[p].op
    THEN req[CHOOSE q \in Procs \ {p} : pc[q] \in ConfirmSites /\ req[q].op = req[p].op]
    ELSE req[p]
\* What an approved call delegates: command, timeout, file_path, contents,
\* old_text and new_text are parameters of the call itself (lines 63, 73, 80).
PayloadOf(p) == req[p]

\* A caller with no call in flight may start one; what its previous call left
\* stays visible until then.
Ready(p) == pc[p] \in {"idle"} \cup Finished

\* Entry of a guarded operation up to its first blocking point: the prompt of
\* the confirmation `site`, or the super() call when there is none.
Enter(p, r, site) ==
    /\ req' = [req EXCEPT ![p] = r]
    /\ outcome' = [outcome EXCEPT ![p] = NoOutcome]
    /\ IF site # "none"
       THEN /\ pc' = [pc EXCEPT ![p] = site]
            /\ log' = [log EXCEPT ![p] =
                         <<_confirm_action(ConfirmLabel(site), ConfirmDetail(site, r))>>]
       ELSE /\ pc' = [pc EXCEPT ![p] = SuperSite(r.op)]
            /\ log' = [log EXCEPT ![p] = <<SuperCall(r)>>]
    /\ GuardFrame
    /\ UNCHANGED <<config, agent_loop, subagent>>

run_shell(p, command, timeout) ==
    /\ agent_loop = "turn"
    /\ Ready(p)
    /\ Enter(p, ShellReq(command, timeout), run_shell_confirm(approval_mode, command))

write_file(p, file_path, contents) ==
    /\ agent_loop = "turn"
    /\ Ready(p)
    /\ Enter(p, WriteReq(file_path, contents), write_file_confirm(approval_mode))

edit_file(p, file_path, old_text, new_text) ==
    /\ agent_loop = "turn"
    /\ Ready(p)
    /\ Enter(p, EditReq(file_path, old_text, new_text), edit_file_confirm(approval_mode))

\* The guarded operation ends with `how` ("return" | "raise") and `val`.
Finish(p, events, how, val) ==
    /\ pc' = [pc EXCEPT ![p] = IF how = "return" THEN "returned" ELSE "raised"]
    /\ log' = [log EXCEPT ![p] = log[p] \o events]
    /\ outcome' = [outcome EXCEPT ![p] = [how |-> how, val |-> val]]
    /\ agent_loop' = IF how = "raise" /\ agent_loop = "turn" THEN OnToolException(val)
                     ELSE agent_loop

\* The guarded operation goes on to its super() call.
Proceed(p, events) ==
    /\ LET then == AfterApproval(pc[p], req[p].command)
       IN  IF then = "super"
           THEN /\ pc' = [pc EXCEPT ![p] = SuperSite(req[p].op)]
                /\ log' = [log EXCEPT ![p] = log[p] \o events \o <<SuperCall(PayloadOf(p))>>]
           ELSE /\ pc' = [pc EXCEPT ![p] = then]
                /\ log' = [log EXCEPT ![p] = log[p] \o events \o
                             <<_confirm_action(ConfirmLabel(then), ConfirmDetail(then, req[p]))>>]
    /\ UNCHANGED <<outcome, agent_loop>>

\* The operator types a line at the prompt of p's confirmation. After an invalid
\* line Confirm.ask asks again: the call stays where it is.
Answer(p, input) ==
    /\ pc[p] \in ConfirmSites
    /\ LET ans == Confirm_ask(input)
           gate == <<Event("gate", ans, input)>>
       IN  IF ans = "invalid"
           THEN UNCHANGED <<pc, log, outcome, agent_loop>>
           ELSE IF Rejects(pc[p], ans = "true")
           THEN Finish(p, gate, "return", RejectionText(pc[p]))
           ELSE Proceed(p, gate)
    /\ GuardFrame
    /\ UNCHANGED <<req, config, subagent>>

\* The wait for input ends with Ctrl-C or end of input.
Cancel(p, sig) ==
    /\ pc[p] \in ConfirmSites
    /\ LET gate == <<Event("gate", "cancel", <<>>)>>
           what == OnCancel(pc[p], sig)
       IN  CASE what = "raise" -> Finish(p, gate, "raise", sig)
             [] what = "reject" -> Finish(p, gate, "return", RejectionText(pc[p]))
             [] what = "proceed" -> Proceed(p, gate)
    /\ GuardFrame
    /\ UNCHANGED <<req, config, subagent>>

\* The underlying operation returns `result`.
UnderlyingReturns(p, result) ==
    /\ pc[p] \in SuperSites
    /\ Finish(p, <<Event("result", "return", <<result>>)>>, "return", SuperReturn(pc[p], result))
    /\ GuardFrame
    /\ UNCHANGED <<req, config, subagent>>

Retried(p) == Len(SelectSeq(log[p], LAMBDA e : e.ev = "call")) > 1

\* The underlying operation raises `exc`.
UnderlyingRaises(p, exc) ==
    /\ pc[p] \in SuperSites
    /\ LET res == <<Event("result", "raise", <<exc>>)>>
           what == OnUnderlyingRaise(pc[p], exc)
       IN  CASE what = "raise" -> Finish(p, res, "raise", exc)
             [] what = "reject" -> Finish(p, res, "return", "Error: Operation rejected by user.")
             [] what = "retry" -> IF Retried(p) THEN Finish(p, res, "raise", exc)
                                  ELSE Proceed(p, res)
    /\ GuardFrame
    /\ UNCHANGED <<req, config, subagent>>

\* The steps of one caller.
NextOf(p) ==
        \/ \E command \in Commands, timeout \in Timeouts : run_shell(p, command, timeout)
        \/ \E file_path \in Paths, contents \in Contents : write_file(p, file_path, contents)
        \/ \E file_path \in Paths, old_text \in OldTexts, new_text \in NewTexts :
               edit_file(p, file_path, old_text, new_text)
        \/ \E input \in Inputs : Answer(p, input)
        \/ \E sig \in CancelSignals : Cancel(p, sig)
        \/ \E result \in UnderlyingResults : UnderlyingReturns(p, result)
        \/ \E exc \in UnderlyingExceptions : UnderlyingRaises(p, exc)

\* prompt_async returns a message that is handed to the agent (lines 320-345).
UserMessage ==
    /\ agent_loop = "waiting"
    /\ agent_loop' = "turn"
    /\ UNCHANGED <<approval_mode, DANGEROUS_PATTERNS, pc, req, log, outcome, config, subagent>>

\* aprint_response returns; the loop goes round to the prompt (lines 345-354, 318).
TurnEnds ==
    /\ agent_loop = "turn"
    /\ \A p \in Procs : Ready(p)
    /\ subagent.pc # "running"
    /\ agent_loop' = "waiting"
    /\ UNCHANGED <<approval_mode, DANGEROUS_PATTERNS, pc, req, log, outcome, config, subagent>>

Next ==
    \/ UserMessage
    \/ TurnEnds
    \/ \E p \in Procs : NextOf(p)

Spec == Init /\ [][Next]_vars

(***************************************************************************)
(* The tools of the whole agent stack: the guarded coding tools of the     *)
(* main agent (one caller) and the coding tools of a sub-agent declared    *)
(* with `tools: [coding]` in .hybot/agents/*.yaml.                         *)
(***************************************************************************)
\* What the sub-agent may ask of its coding tools.
SubagentRequests ==
    {ShellReq(CmdRmRf, "None"), WriteReq(PathNotes, "hello"), EditReq(PathNotes, "foo", "bar")}

\* _build_subagent_tools: CodingTools(base_dir=str(workspace)), the plain
\* toolkit; its operations are the underlying operations themselves.
SubagentCalls(r) ==
    /\ agent_loop = "turn"
    /\ subagent.pc # "running"
    /\ subagent' = [pc |-> "running", req |-> r, log |-> <<SuperCall(r)>>]
    /\ UNCHANGED <<approval_mode, DANGEROUS_PATTERNS, pc, req, log, outcome, config, agent_loop>>

SubagentReturns(result) ==
    /\ subagent.pc = "running"
    /\ subagent' = [subagent EXCEPT !.pc = "returned",
                                    !.log = @ \o <<Event("result", "return", <<result>>)>>]
    /\ UNCHANGED <<approval_mode, DANGEROUS_PATTERNS, pc, req, log, outcome, config, agent_loop>>

NextTools ==
    \/ UserMessage
    \/ TurnEnds
    \/ NextOf("t1")
    \/ \E r \in SubagentRequests : SubagentCalls(r)
    \/ \E result \in UnderlyingResults : SubagentReturns(result)

SpecTools == Init /\ [][NextTools]_vars

(***************************************************************************)
(* The guard when the operator answers every prompt (no prompt is left by  *)
(* Ctrl-C or end of input) and the underlying operation terminates.        *)
(***************************************************************************)
AnsweredOf(p) ==
        \/ \E command \in Commands, timeout \in Timeouts : run_shell(p, command, timeout)
        \/ \E file_path \in Paths, contents \in Contents : write_file(p, file_path, contents)
        \/ \E file_path \in Paths, old_text \in OldTexts, new_text \in NewTexts :
               edit_file(p, file_path, old_text, new_text)
        \/ \E input \in Inputs : Answer(p, input)
        \/ \E result \in UnderlyingResults : UnderlyingReturns(p, result)
        \/ \E exc \in UnderlyingExceptions : UnderlyingRaises(p, exc)

NextAnswered ==
    \/ UserMessage
    \/ TurnEnds
    \/ \E p \in Procs : AnsweredOf(p)

\* The operator eventually types an accepted line at a prompt that stays open.
OperatorAnswers(p) == WF_vars(\E input \in Inputs : Answer(p, input))
\* The underlying operation eventually returns or raises.
UnderlyingTerminates(p) ==
    WF_vars(\/ \E result \in UnderlyingResults : UnderlyingReturns(p, result)
            \/ \E exc \in UnderlyingExceptions : UnderlyingRaises(p, exc))

SpecAnswered ==
    /\ Init
    /\ [][NextAnswered]_vars
    /\ \A p \in Procs : OperatorAnswers(p) /\ UnderlyingTerminates(p)

(***************************************************************************)
(* The classifier over reorderings of the catalog: the list of lines 15-33 *)
(* in other orders, one caller, the mode in which the classifier is used.  *)
(***************************************************************************)
Rotated(n) == [k \in PatternIds |-> ((k + n - 1) % Len(PatternSource)) + 1]
Reversed == [k \in PatternIds |-> Len(PatternSource) + 1 - k]
Swapped(i) == [k \in PatternIds |-> IF k = i THEN i + 1 ELSE IF k = i + 1 THEN i ELSE k]
CatalogOrders ==
    {Rotated(n) : n \in 0..(Len(PatternSource) - 1)} \cup {Reversed}
        \cup {Swapped(i) : i \in 1..(Len(PatternSource) - 1)}

InitCatalog ==
    /\ config = load_merged_config("dangerous")
    /\ approval_mode = _build_agent_stack(config)
    /\ agent_loop = "turn"
    /\ subagent = NoSubagentCall
    /\ DANGEROUS_PATTERNS \in CatalogOrders
    /\ pc = [p \in Procs |-> "idle"]
    /\ req = [p \in Procs |-> NoReq]
    /\ log = [p \in Procs |-> <<>>]
    /\ outcome = [p \in Procs |-> NoOutcome]

NextCatalog == NextOf("t1")

SpecCatalog == InitCatalog /\ [][NextCatalog]_vars

(***************************************************************************)
(* What a call did, read off its log.                                      *)
(***************************************************************************)
Prompts(p) == SelectSeq(log[p], LAMBDA e : e.ev = "prompt")
Calls(p) == SelectSeq(log[p], LAMBDA e : e.ev = "call")
\* The confirmation gate of p's call ended with `a` ("true" | "false" | "cancel").
GateSaid(p, a) == \E k \in 1..Len(log[p]) : log[p][k].ev = "gate" /\ log[p][k].a = a
\* p's call has been through its decision.
Decided(p) == pc[p] # "idle"
\* The fixed rejection literal of the interface.
RejectedLiteral == "Error: Operation rejected by user."

(***************************************************************************)
(* Claims.                                                                 *)
(***************************************************************************)
\* C1: when the confirmation gate is asked and returns false, the underlying
\* operation is invoked zero times for that call (run_shell, write_file, edit_file).
C1_RejectedNeverDelegates ==
    \A p \in Procs :
        GateSaid(p, "false") => Calls(p) = <<>> /\ pc[p] \notin SuperSites
\* Scenario 1: mode dangerous, "rm -rf /tmp/build", the operator answers no.
C1_Witness ==
    \E p \in Procs :
        /\ approval_mode = "dangerous"
        /\ req[p].op = "run_shell" /\ req[p].command = CmdRmRf
        /\ GateSaid(p, "false") /\ pc[p] = "returned"

\* C2: when the wait for the answer is cancelled (keyboard interrupt or end of
\* input), the underlying operation is never invoked for that request: the
\* cancellation is not an approval and the call does not go on to delegate.
C2_CancelNeverDelegates ==
    \A p \in Procs :
        GateSaid(p, "cancel") =>
            /\ Calls(p) = <<>>
            /\ pc[p] \notin SuperSites
            /\ ~GateSaid(p, "true")
C2_Witness ==
    \E p, q \in Procs :
        /\ GateSaid(p, "cancel") /\ outcome[p] = [how |-> "raise", val |-> "EOFError"]
        /\ GateSaid(q, "cancel") /\ outcome[q] = [how |-> "raise", val |-> "KeyboardInterrupt"]

\* C3 (as claimed): when the gate signals cancellation instead of returning a
\* boolean, the guarded operation ends by returning the Rejected outcome; the
\* cancellation is not raised to the caller.
C3_CancelReturnsRejected ==
    \A p \in Procs :
        GateSaid(p, "cancel") => outcome[p] = [how |-> "return", val |-> RejectedLiteral]

\* C4: in mode `always` every run_shell, write_file and edit_file call asks the
\* gate before any underlying call, whatever the command or payload, and the
\* underlying operation runs only right after a yes.
C4_AlwaysAsksFirst ==
    approval_mode = "always" =>
        \A p \in Procs :
            Decided(p) =>
                /\ log[p][1].ev = "prompt"
                /\ Len(Prompts(p)) = 1
                /\ \A k \in 1..Len(log[p]) :
                       log[p][k].ev = "call" =>
                           /\ k > 1
                           /\ log[p][k - 1].ev = "gate"
                           /\ log[p][k - 1].a = "true"
\* Scenario 3: mode always, write "hello" to notes.md, the operator answers yes.
C4_Witness ==
    \E p \in Procs :
        /\ approval_mode = "always"
        /\ req[p].op = "write_file" /\ req[p].file_path = PathNotes
        /\ req[p].contents = "hello"
        /\ GateSaid(p, "true")
        /\ outcome[p] = [how |-> "return", val |-> "ok"]

\* C5: in mode `dangerous` a run_shell call asks for confirmation iff its command
\* is classified dangerous; a benign command is delegated with no prompt; and
\* write_file and edit_file are delegated with no prompt, whatever they carry.
C5_DangerousModeGatesOnlyDangerousShell ==
    approval_mode = "dangerous" =>
        \A p \in Procs :
            Decided(p) =>
                /\ req[p].op = "run_shell" =>
                       /\ (log[p][1].ev = "prompt") <=> _is_dangerous(req[p].command)
                       /\ Len(Prompts(p)) = IF _is_dangerous(req[p].command) THEN 1 ELSE 0
                /\ req[p].op \in {"write_file", "edit_file"} => Prompts(p) = <<>>
                /\ Prompts(p) = <<>> => log[p][1].ev = "call"
\* A dangerous command waits at its prompt while a benign command (scenario 2)
\* runs with no prompt.
C5_Witness ==
    \E p, q \in Procs :
        /\ approval_mode = "dangerous"
        /\ req[p].op = "run_shell" /\ req[p].command = CmdForcePush /\ pc[p] = "L69"
        /\ req[q].op = "run_shell" /\ req[q].command = CmdLs
        /\ Prompts(q) = <<>> /\ outcome[q] = [how |-> "return", val |-> "ok"]

\* C6: in mode `never` no call ever asks the gate, even for a command matching
\* several patterns, and every call is delegated exactly once.
C6_NeverModeNeverAsks ==
    approval_mode = "never" =>
        \A p \in Procs :
            Decided(p) =>
                /\ Prompts(p) = <<>>
                /\ ~\E k \in 1..Len(log[p]) : log[p][k].ev = "gate"
                /\ Len(Calls(p)) = 1
\* Scenario 4: mode never, "sudo shutdown now" (two patterns match) is executed.
C6_Witness ==
    \E p \in Procs :
        /\ approval_mode = "never"
        /\ req[p].op = "run_shell" /\ req[p].command = CmdSudo
        /\ Cardinality({k \in PatternIds : SearchTable[CmdSudo][k]}) > 1
        /\ outcome[p] = [how |-> "return", val |-> "ok"]

\* The truth table of the approval policy (spec section 4.3).
TruthTable(mode, kind, risk) ==
    CASE mode = "always" -> "RequireConfirmation"
      [] mode = "dangerous" ->
             IF kind = "ShellExec" /\ risk = "Dangerous" THEN "RequireConfirmation"
             ELSE "ProceedDirectly"
      [] mode = "never" -> "ProceedDirectly"
KindOf(op) ==
    CASE op = "run_shell" -> "ShellExec"
      [] op = "write_file" -> "FileWrite"
      [] op = "edit_file" -> "FileEdit"
\* The risks a request stands for: a command has its classification, a file
\* operation is not classified and stands for both.
RisksOf(r) ==
    IF r.op = "run_shell"
    THEN {IF _is_dangerous(r.command) THEN "Dangerous" ELSE "Benign"}
    ELSE {"Benign", "Dangerous"}
\* The decision p's call took: what it did first.
DecisionOf(p) ==
    IF log[p] = <<>> THEN "none"
    ELSE IF log[p][1].ev = "prompt" THEN "RequireConfirmation"
    ELSE IF log[p][1].ev = "call" THEN "ProceedDirectly"
    ELSE "none"

\* C7: for every mode in {always, dangerous, never}, every kind and every risk
\* the guard takes exactly one decision, the one of the truth table, and the
\* decision step never fails.
C7_DecisionIsTruthTable ==
    approval_mode \in {"always", "dangerous", "never"} =>
        \A p \in Procs :
            Decided(p) =>
                \A risk \in RisksOf(req[p]) :
                    DecisionOf(p) = TruthTable(approval_mode, KindOf(req[p].op), risk)
\* Mode dangerous: a dangerous command requires confirmation while a file edit
\* proceeds directly.
C7_Witness ==
    \E p, q \in Procs :
        /\ approval_mode = "dangerous"
        /\ req[p].op = "run_shell" /\ _is_dangerous(req[p].command)
        /\ DecisionOf(p) = "RequireConfirmation"
        /\ req[q].op = "edit_file" /\ DecisionOf(q) = "ProceedDirectly"

\* C8: every rejection (both branches of run_shell, write_file, edit_file) is
\* returned to the caller as the literal "Error: Operation rejected by user.";
\* no other rejection text is produced.
C8_RejectionIsTheLiteral ==
    \A p \in Procs :
        /\ GateSaid(p, "false") =>
               pc[p] = "returned" /\ outcome[p] = [how |-> "return", val |-> RejectedLiteral]
        /\ outcome[p].how = "return" /\ Calls(p) = <<>> => outcome[p].val = RejectedLiteral
\* Mode always: a shell command and a file edit are both refused.
C8_Witness ==
    \E p, q \in Procs :
        /\ req[p].op = "run_shell" /\ GateSaid(p, "false") /\ pc[p] = "returned"
        /\ req[q].op = "edit_file" /\ GateSaid(q, "false") /\ pc[q] = "returned"

\* C9: whenever the guard proceeds (directly or after a yes) it calls the
\* underlying operation once, with exactly the arguments it received, and
\* returns exactly what the underlying operation returns.
C9_DelegatesUnchanged ==
    \A p \in Procs :
        /\ \A k \in 1..Len(log[p]) :
               log[p][k].ev = "call" =>
                   /\ log[p][k].a = req[p].op
                   /\ req[p].op = "run_shell" =>
                          log[p][k].b = <<req[p].command, req[p].timeout>>
                   /\ req[p].op = "write_file" =>
                          log[p][k].b = <<req[p].file_path, req[p].contents>>
                   /\ req[p].op = "edit_file" =>
                          log[p][k].b = <<req[p].file_path, req[p].old_text, req[p].new_text>>
        /\ Len(Calls(p)) <= 1
        /\ \A k \in 1..Len(log[p]) :
               log[p][k].ev = "result" /\ log[p][k].a = "return" =>
                   outcome[p] = [how |-> "return", val |-> log[p][k].b[1]]
\* An approved long command with a timeout is run in full and its output returned.
C9_Witness ==
    \E p \in Procs :
        /\ req[p].op = "run_shell" /\ req[p].command = CmdLong /\ req[p].timeout = "30"
        /\ Len(req[p].command) > DetailLimit
        /\ GateSaid(p, "true")
        /\ outcome[p] = [how |-> "return", val |-> "ok"]

\* C10: a failure of the underlying operation (an error result or an exception)
\* reaches the caller unchanged: the guard does not catch it, does not replace
\* it by the rejection string, and does not call the operation a second time.
IsFailure(e) ==
    e.ev = "result" /\ (e.a = "raise" \/ e.b = <<"Error: command failed">>)
C10_UnderlyingFailurePassesThrough ==
    \A p \in Procs :
        \A k \in 1..Len(log[p]) :
            IsFailure(log[p][k]) =>
                /\ k = Len(log[p])
                /\ outcome[p] = [how |-> log[p][k].a, val |-> log[p][k].b[1]]
                /\ Len(Calls(p)) = 1
\* One call ends with the underlying exception, another with its error result.
C10_Witness ==
    \E p, q \in Procs :
        /\ outcome[p] = [how |-> "raise", val |-> "OSError"] /\ Len(Calls(p)) = 1
        /\ outcome[q] = [how |-> "return", val |-> "Error: command failed"]

\* Position of the first event of kind ev in p's log (0: none).
FirstOf(p, ev) ==
    IF \E k \in 1..Len(log[p]) : log[p][k].ev = ev
    THEN CHOOSE k \in 1..Len(log[p]) :
             log[p][k].ev = ev /\ \A j \in 1..(k - 1) : log[p][j].ev # ev
    ELSE 0
\* The prompt of a call, when there is one, is shown and answered before the
\* underlying operation starts, and none is shown after it has started.
PromptPrecedesUnderlying ==
    \A p \in Procs :
        \A k \in 1..Len(log[p]) :
            /\ log[p][k].ev = "prompt" => FirstOf(p, "call") = 0 \/ k < FirstOf(p, "call")
            /\ log[p][k].ev = "gate" => FirstOf(p, "call") = 0 \/ k < FirstOf(p, "call")
            /\ log[p][k].ev = "call" /\ Prompts(p) # <<>> =>
                   k > 1 /\ log[p][k - 1].ev = "gate"
\* C11 (as claimed): the guard is strictly pre-execution (PromptPrecedesUnderlying)
\* and every request ends in exactly one of two states: the underlying operation
\* invoked once with the Executed outcome (what the underlying operation gave),
\* or invoked zero times with the Rejected outcome.
C11_PreExecutionAndTwoEndStates ==
    /\ PromptPrecedesUnderlying
    /\ \A p \in Procs :
           pc[p] \in Finished =>
               \/ /\ Len(Calls(p)) = 1
                  /\ log[p][Len(log[p])].ev = "result"
                  /\ outcome[p] = [how |-> log[p][Len(log[p])].a,
                                   val |-> log[p][Len(log[p])].b[1]]
               \/ /\ Calls(p) = <<>>
                  /\ outcome[p] = [how |-> "return", val |-> RejectedLiteral]

\* The lines that say yes in so many words.
ExplicitYes == {<<"y">>, <<"Y">>, <<" ", "y">>, <<" ", "Y">>, <<"y", "e", "s">>}
\* C12: the confirmation gate returns true only when the operator gives an
\* explicit yes; a bare acknowledgement (empty input) yields false, so the
\* default outcome of a prompt is rejection.
C12_GateTrueOnlyOnExplicitYes ==
    \A p \in Procs :
        \A k \in 1..Len(log[p]) :
            log[p][k].ev = "gate" /\ log[p][k].a # "cancel" =>
                /\ log[p][k].a = "true" => log[p][k].b \in ExplicitYes
                /\ log[p][k].b = <<>> =>
                       /\ log[p][k].a = "false"
                       /\ outcome[p] = [how |-> "return", val |-> RejectedLiteral]
\* One prompt is answered with a bare Enter and refused, another with " y" and approved.
C12_Witness ==
    \E p, q \in Procs :
        /\ \E k \in 1..Len(log[p]) :
               log[p][k].ev = "gate" /\ log[p][k].a = "false" /\ log[p][k].b = <<>>
        /\ pc[p] = "returned"
        /\ \E k \in 1..Len(log[q]) :
               log[q][k].ev = "gate" /\ log[q][k].a = "true" /\ log[q][k].b = <<" ", "Y">>

\* The callers inside the prompt-and-wait region of _confirm_action (lines 43-47).
InPromptRegion == {p \in Procs : pc[p] \in ConfirmSites}
\* C13 (as claimed): when guarded calls that each require confirmation are
\* dispatched concurrently, at most one confirmation prompt is in its
\* prompt-and-wait region at any time.
C13_OnePromptAtATime == Cardinality(InPromptRegion) <= 1

\* C14: no step of a run_shell, write_file or edit_file call, whatever the
\* call's outcome (executed, rejected, cancelled), changes the guard's approval
\* mode or the contents or order of the pattern catalog.
C14_CallsLeaveModeAndCatalog ==
    [][approval_mode' = approval_mode /\ DANGEROUS_PATTERNS' = DANGEROUS_PATTERNS]_vars
\* One call executed after an approval, another cancelled, the catalog as loaded.
C14_Witness ==
    \E p, q \in Procs :
        /\ GateSaid(p, "true") /\ pc[p] = "returned" /\ Len(Calls(p)) = 1
        /\ GateSaid(q, "cancel") /\ pc[q] = "raised"
        /\ DANGEROUS_PATTERNS = [k \in PatternIds |-> k]
        /\ approval_mode = "always"

\* C15: the decision for a request depends only on (mode, kind, risk), never on
\* history: whenever a call is entered, its decision equals the decision on
\* record of every earlier call of the same kind and risk (the caller's own
\* previous call included), whether that call was approved, rejected, cancelled
\* or executed; an approved dangerous command is asked about again, a rejected
\* one does not block later requests.
C15_DecisionIgnoresHistory ==
    [][\A p \in Procs :
           Ready(p) /\ ~Ready(p)' =>
               \A q \in Procs :
                   (/\ Decided(q)
                    /\ KindOf(req[q].op) = KindOf(req'[p].op)
                    /\ RisksOf(req[q]) = RisksOf(req'[p]))
                       => DecisionOf(p)' = DecisionOf(q)]_vars
\* A dangerous command was approved and executed; the identical command is being
\* asked about.
C15_Witness ==
    \E p, q \in Procs :
        /\ approval_mode = "dangerous"
        /\ req[p] = ShellReq(CmdRmRf, "None") /\ req[q] = req[p]
        /\ GateSaid(p, "true") /\ pc[p] = "returned" /\ Len(Calls(p)) = 1
        /\ pc[q] = "L69"

\* C16: classifying the same command string twice, with any other
\* classifications or guarded calls in between, yields the same risk
\* classification: no step of any call changes the classification of a command
\* that a call on record has submitted.
C16_ClassificationIsStable ==
    [][\A p \in Procs :
           req[p].op = "run_shell" =>
               \A c \in {req[p].command} : _is_dangerous(c)' = _is_dangerous(c)]_vars
\* The same command classified by two calls with a rejection in between them.
C16_Witness ==
    \E p, q \in Procs :
        /\ approval_mode = "dangerous"
        /\ req[p] = ShellReq(CmdSudo, "None") /\ req[q] = req[p]
        /\ GateSaid(p, "false") /\ pc[p] = "returned"
        /\ GateSaid(q, "true") /\ pc[q] = "L71"

\* C17: a command is classified Dangerous if and only if at least one catalog
\* signature matches it, in every order of the catalog (rotations, the reversal
\* and the adjacent transpositions of the list), and the call's decision in mode
\* dangerous follows that classification.
C17_DangerousIffAnyMatchInAnyOrder ==
    /\ \A c \in Commands :
           _is_dangerous(c) <=> \E k \in PatternIds : SearchTable[c][k]
    /\ \A p \in Procs :
           Decided(p) /\ req[p].op = "run_shell" =>
               (DecisionOf(p) = "RequireConfirmation"
                    <=> \E k \in PatternIds : SearchTable[req[p].command][k])
\* The catalog reversed; "sudo shutdown now", matched by the 3rd and 10th
\* signatures only, is asked about.
C17_Witness ==
    /\ DANGEROUS_PATTERNS = Reversed
    /\ req["t1"].command = CmdSudo
    /\ pc["t1"] = "L69"
    /\ {k \in PatternIds : SearchTable[CmdSudo][k]} = {3, 10}

\* C18: the catalog classifies "rm -rf /tmp/build", "sudo shutdown now" and
\* "git push origin main --force" as Dangerous and "ls -la" as Benign.
C18_ScenarioClassifications ==
    /\ _is_dangerous(CmdRmRf)
    /\ _is_dangerous(CmdSudo)
    /\ _is_dangerous(CmdForcePush)
    /\ ~_is_dangerous(CmdLs)
\* Scenarios 5 and 2: the force push is asked about, "ls -la" runs directly.
C18_Witness ==
    \E p, q \in Procs :
        /\ approval_mode = "dangerous"
        /\ req[p].command = CmdForcePush /\ pc[p] = "L69"
        /\ req[q].command = CmdLs /\ pc[q] = "L71" /\ Len(log[q]) = 1

\* The step appends the gate event `a` to p's log.
GateStep(p, a) ==
    /\ Len(log'[p]) = Len(log[p]) + 1
    /\ log'[p][Len(log'[p])].ev = "gate"
    /\ log'[p][Len(log'[p])].a = a
C20_GuardModeIsConfiguredMode ==
    /\ approval_mode = config.mode
    /\ config.given = "absent" => approval_mode = "dangerous"
    /\ config.given # "absent" => approval_mode = config.given
\* No mode configured: a dangerous command is asked about, a file write is not.
C20_Witness ==
    \E p, q \in Procs :
        /\ config.given = "absent"
        /\ req[p].op = "run_shell" /\ pc[p] = "L69"
        /\ req[q].op = "write_file" /\ pc[q] = "L78" /\ Len(log[q]) = 1

\* p's call is under way: at a prompt or in the underlying operation.
InFlight(p) == pc[p] \in ConfirmSites \cup SuperSites
\* Executed: the underlying operation ran once and what it produced (its result
\* or its failure) is what the call produced.
ExecutedOutcome(p) ==
    /\ Len(Calls(p)) = 1
    /\ log[p][Len(log[p])].ev = "result"
    /\ outcome[p] = [how |-> log[p][Len(log[p])].a, val |-> log[p][Len(log[p])].b[1]]
\* Rejected: the underlying operation did not run and the call returned the literal.
RejectedOutcome(p) ==
    Calls(p) = <<>> /\ outcome[p] = [how |-> "return", val |-> RejectedLiteral]
\* C21: when the operator eventually answers every prompt and the underlying
\* operation terminates, every guarded call eventually completes with an
\* Executed or a Rejected outcome.
C21_EveryCallCompletes ==
    \A p \in Procs :
        InFlight(p) ~> (pc[p] \in Finished /\ (ExecutedOutcome(p) \/ RejectedOutcome(p)))
\* One call completed as Executed after its prompt was answered, another as Rejected.
C21_Witness ==
    \E p, q \in Procs :
        /\ pc[p] = "returned" /\ GateSaid(p, "true") /\ ExecutedOutcome(p)
        /\ pc[q] = "returned" /\ GateSaid(q, "false") /\ RejectedOutcome(q)
        /\ agent_loop = "waiting"

\* A line that Confirm.ask accepts as an answer: empty (the default), y or n.
AcceptedLine(line) == line = <<>> \/ ToLower(Strip(line)) \in {<<"y">>, <<"n">>}
\* C22: the guard has no timeout of its own: a call leaves its confirmation
\* prompt only by a step in which the operator's accepted line or the operator's
\* cancellation (Ctrl-C, end of input) arrives; in every other step the request
\* stays pending, resolved neither to Executed nor to Rejected.
C22_PromptLeftOnlyByOperator ==
    [][\A p \in Procs :
           pc[p] \in ConfirmSites /\ pc'[p] # pc[p] =>
               /\ Len(log'[p]) > Len(log[p])
               /\ log'[p][Len(log[p]) + 1].ev = "gate"
               /\ \/ /\ log'[p][Len(log[p]) + 1].a \in {"true", "false"}
                     /\ AcceptedLine(log'[p][Len(log[p]) + 1].b)
                  \/ /\ log'[p][Len(log[p]) + 1].a = "cancel"
                     /\ outcome'[p].val \in {"KeyboardInterrupt", "EOFError"}]_vars
\* A prompt still pending after the turn it belongs to was interrupted.
C22_Witness ==
    \E p, q \in Procs :
        /\ pc[p] \in ConfirmSites /\ Len(log[p]) = 1
        /\ outcome[q] = [how |-> "raise", val |-> "KeyboardInterrupt"]
        /\ agent_loop = "waiting"

\* The detail string a call passes to the gate: the command, or the target path.
DetailPassed(r) == IF r.op = "run_shell" THEN r.command ELSE r.file_path
\* C23: the detail shown in a confirmation prompt is the first min(200, length)
\* characters of the detail string passed to the gate, never more than 200
\* characters, while the command executed after approval is the full,
\* untruncated command.
C23_PromptDetailIsTruncatedPrefix ==
    \A p \in Procs :
        \A k \in 1..Len(log[p]) :
            /\ log[p][k].ev = "prompt" =>
                   LET shown == log[p][k].b
                       passed == DetailPassed(req[p])
                   IN  /\ Len(shown) <= 200
                       /\ Len(shown) = IF Len(passed) < 200 THEN Len(passed) ELSE 200
                       /\ \A n \in 1..Len(shown) : shown[n] = passed[n]
            /\ log[p][k].ev = "call" /\ req[p].op = "run_shell" =>
                   /\ log[p][k].b[1] = req[p].command
                   /\ Len(log[p][k].b[1]) = Len(req[p].command)
\* A command longer than 200 characters: 200 of them were shown, all of them run.
C23_Witness ==
    \E p \in Procs :
        /\ Len(req[p].command) > 200
        /\ Len(log[p]) >= 3
        /\ log[p][1].ev = "prompt" /\ Len(log[p][1].b) = 200
        /\ log[p][2].ev = "gate" /\ log[p][2].a = "true"
        /\ log[p][3].ev = "call" /\ Len(log[p][3].b[1]) = Len(req[p].command)

\* The labels each action kind may be asked with.
LabelsOf(kind) ==
    CASE kind = "ShellExec" -> {"Execute Shell command", "Execute dangerous Shell command"}
      [] kind = "FileWrite" -> {"Write file"}
      [] kind = "FileEdit" -> {"Edit file"}
\* C24: each confirmation is asked with a description specific to the action
\* kind: shell execution, file write and file edit each use their own label and
\* no two kinds share a label.
C24_LabelsAreKindSpecific ==
    /\ \A p \in Procs :
           \A k \in 1..Len(log[p]) :
               log[p][k].ev = "prompt" => log[p][k].a \in LabelsOf(KindOf(req[p].op))
    /\ \A p, q \in Procs :
           (/\ Prompts(p) # <<>> /\ Prompts(q) # <<>>
            /\ KindOf(req[p].op) # KindOf(req[q].op))
               => Prompts(p)[1].a # Prompts(q)[1].a
\* Mode always: a file write and a file edit are both being asked about.
C24_Witness ==
    \E p, q \in Procs :
        /\ pc[p] = "L76" /\ Prompts(p)[1].a = "Write file"
        /\ pc[q] = "L83" /\ Prompts(q)[1].a = "Edit file"

\* C25: if the approval mode holds any value other than "always" or "dangerous"
\* (a differently-cased mode from the unvalidated configuration string, or
\* "never"), every run_shell, write_file and edit_file call is delegated with
\* no confirmation, exactly as in mode never.
C25_OtherModesDelegateUnasked ==
    approval_mode \notin {"always", "dangerous"} =>
        \A p \in Procs :
            /\ pc[p] \notin ConfirmSites
            /\ Prompts(p) = <<>>
            /\ Decided(p) => log[p][1] = SuperCall(req[p])
\* Configured mode "Always": a dangerous command and a file write run unasked.
C25_Witness ==
    \E p, q \in Procs :
        /\ config.given = "Always" /\ approval_mode = "Always"
        /\ req[p].op = "run_shell" /\ _is_dangerous(req[p].command)
        /\ pc[p] = "returned" /\ ExecutedOutcome(p)
        /\ req[q].op = "write_file" /\ pc[q] = "L78"

\* The gate events of p's call: one per invocation of the gate that has ended.
Gates(p) == SelectSeq(log[p], LAMBDA e : e.ev = "gate")
\* C26: each guarded call invokes the confirmation gate at most once; a
\* run_shell call in mode always with a command that is also classified
\* Dangerous produces exactly one prompt, not two.
C26_GateAtMostOncePerCall ==
    \A p \in Procs :
        /\ Len(Prompts(p)) <= 1
        /\ Len(Gates(p)) <= Len(Prompts(p))
        /\ (/\ approval_mode = "always" /\ Decided(p)
            /\ req[p].op = "run_shell" /\ _is_dangerous(req[p].command))
               => Len(Prompts(p)) = 1
\* Mode always, "rm -rf /tmp/build": asked once, approved, run, returned.
C26_Witness ==
    \E p \in Procs :
        /\ approval_mode = "always"
        /\ req[p].command = CmdRmRf /\ _is_dangerous(CmdRmRf)
        /\ pc[p] = "returned" /\ ExecutedOutcome(p)
        /\ Len(log[p]) = 4 /\ Len(Prompts(p)) = 1 /\ Len(Gates(p)) = 1

\* The tool calls on record, of the main agent's callers and of the sub-agent.
ToolCalls ==
    {[req |-> req[p], log |-> log[p]] : p \in Procs}
        \cup {[req |-> subagent.req, log |-> subagent.log]}
\* The decision of the configured mode for a request is to ask first.
RequiresConfirmation(r) ==
    \/ approval_mode = "always"
    \/ approval_mode = "dangerous" /\ r.op = "run_shell" /\ _is_dangerous(r.command)
\* C27 (as claimed): every shell command and file write/edit that a coding tool
\* of this system sends to the underlying executor has passed through the
\* guard's decision for the configured mode, the coding tools of sub-agents
\* included: where the decision is to ask, the call follows an approved prompt.
C27_EveryExecutorCallIsGuarded ==
    \A c \in ToolCalls :
        \A k \in 1..Len(c.log) :
            c.log[k].ev = "call" /\ RequiresConfirmation(c.req) =>
                /\ k > 1
                /\ c.log[k - 1].ev = "gate"
                /\ c.log[k - 1].a = "true"

FileOps == {"write_file", "edit_file"}
\* C28: for write_file and edit_file the detail passed to the confirmation gate
\* is the target path only: the prompt shows the path and nothing of the
\* contents, old text or new text, and calls of the same operation that differ
\* in those texts get the same decision.
C28_FilePromptsShowPathOnly ==
    /\ \A p \in Procs :
           req[p].op \in FileOps =>
               \A k \in 1..Len(log[p]) :
                   log[p][k].ev = "prompt" => log[p][k].b = req[p].file_path
    /\ \A p, q \in Procs :
           (/\ Decided(p) /\ Decided(q)
            /\ req[p].op \in FileOps /\ req[q].op = req[p].op)
               => DecisionOf(p) = DecisionOf(q)
\* Mode always: a write and an edit whose texts read like a dangerous command
\* are asked about with their path.
C28_Witness ==
    \E p, q \in Procs :
        /\ approval_mode = "always"
        /\ req[p] = WriteReq(PathNotes, "sudo rm -rf /")
        /\ pc[p] = "L76" /\ log[p][1].b = PathNotes
        /\ req[q] = EditReq(PathPasswd, "foo", "sudo rm -rf /")
        /\ pc[q] = "L83" /\ log[q][1].b = PathPasswd

\* The step records the answer `a` ("true" | "false") of p's gate.
AnswerStep(p, a) ==
    /\ pc[p] \in ConfirmSites
    /\ Len(log'[p]) > Len(log[p])
    /\ log'[p][Len(log[p]) + 1].ev = "gate"
    /\ log'[p][Len(log[p]) + 1].a = a
\* C29: under any interleaving of concurrently dispatched guarded calls an
\* answer received by one call's prompt decides only that call: the step leaves
\* every other call as it was (a yes does not execute it, a no does not reject
\* it), a yes delegates the answered call's own payload, and a no rejects the
\* answered call alone.
C29_AnswerDecidesOnlyItsCall ==
    [][\A p \in Procs :
           /\ (AnswerStep(p, "true") \/ AnswerStep(p, "false")) =>
                  \A q \in Procs \ {p} :
                      /\ pc'[q] = pc[q] /\ req'[q] = req[q]
                      /\ log'[q] = log[q] /\ outcome'[q] = outcome[q]
           /\ AnswerStep(p, "true") =>
                  /\ pc'[p] = SuperSite(req[p].op)
                  /\ log'[p][Len(log'[p])] = SuperCall(req[p])
           /\ AnswerStep(p, "false") =>
                  /\ pc'[p] = "returned"
                  /\ Calls(p)' = <<>>]_vars
\* Mode always, two prompts open together: "ls -la" was approved and run while
\* "rm -rf /tmp/build" is still pending.
C29_Witness ==
    \E p, q \in Procs :
        /\ approval_mode = "always"
        /\ req[p] = ShellReq(CmdLs, "None") /\ GateSaid(p, "true") /\ pc[p] = "L71"
        /\ log[p][Len(log[p])].b[1] = CmdLs
        /\ req[q] = ShellReq(CmdRmRf, "None") /\ pc[q] = "L66" /\ Calls(q) = <<>>
=============================================================================
